---- MODULE Spec2Model ----
(***************************************************************************)
(* A model of the generic NMOS API test engine (GenericTest.py) and of the *)
(* way IS0402Test.py configures it.                                        *)
(*                                                                         *)
(* Strings are sequences of tokens.  The tokens "/", "{", "}" and " " are  *)
(* the characters the code inspects (split("{"), rstrip("/"), format());   *)
(* every other token stands for a run of characters none of which is one   *)
(* of those.  Identifiers, path templates, URLs and test names are such    *)
(* sequences, so that stripping, splitting, substitution and concatenation *)
(* are computed, not assumed.                                              *)
(***************************************************************************)
EXTENDS Integers, Sequences, FiniteSets, TLC

VARIABLES
    apis,            \* self.apis: the API instances, in iteration order
    test_version,    \* self.test_version
    omit_paths,      \* self.omit_paths
    saved_entities,  \* self.saved_entities: path -> list of identifiers
    result,          \* self.result
    results,         \* the local list `results` of basics()
    checks,          \* history: for each entry of results, the check it came
                     \* from: [kind, api, res, req (whether it sent a request)]
    pc,              \* the position of the run: [phase, api, res]
    inflight,        \* the HTTP request sent and not yet answered
    last,            \* the transport's answer to the latest request
    nreq,            \* history: number of HTTP requests issued so far
    harvests,        \* history: every save_subresources call: [path, api, found, run]
    runs,            \* number of run_tests calls started
    env,             \* the caller and the servers: [max_runs, events, base_events]
                     \* (and, for the named checks: mdns, post_valid,
                     \* post_invalid, get1, get2)
    methods,         \* the names of the test_ methods dir(self) yields, in order
    call             \* the validator call under test (SpecValidator only)

vars == <<apis, test_version, omit_paths, saved_entities, result, results, checks, pc,
          inflight, last, nreq, harvests, runs, env, methods, call>>

(***************************************************************************)
(* Bounds of the model.                                                    *)
(***************************************************************************)
\* longest JSON list body the validator specification enumerates
MaxItems == 2
\* number of run_tests calls made on one engine in the re-run scenario
MaxRuns == 2

(***************************************************************************)
(* String helpers (Python str methods on token sequences).                 *)
(***************************************************************************)
RECURSIVE rstrip(_, _)
\* s.rstrip(c): s without its trailing c tokens
rstrip(s, c) ==
    IF Len(s) > 0 /\ s[Len(s)] = c THEN rstrip(SubSeq(s, 1, Len(s) - 1), c) ELSE s

RECURSIVE split_head(_, _)
\* s.split(c)[0]: the part of s before the first c
split_head(s, c) ==
    IF Len(s) = 0 \/ s[1] = c THEN <<>> ELSE <<s[1]>> \o split_head(Tail(s), c)

\* s.endswith(c)
endswith(s, c) == Len(s) > 0 /\ s[Len(s)] = c

RECURSIVE format(_, _, _)
\* template.format(**{name: entity}): every "{name}" replaced by entity
format(template, name, entity) ==
    IF Len(template) = 0 THEN <<>>
    ELSE IF Len(template) >= 3 /\ template[1] = "{" /\ template[2] = name /\ template[3] = "}"
         THEN entity \o format(SubSeq(template, 4, Len(template)), name, entity)
         ELSE <<template[1]>> \o format(Tail(template), name, entity)

\* needle in haystack, for strings: a contiguous occurrence
contains(haystack, needle) ==
    \E i \in 1..(Len(haystack) - Len(needle) + 1) :
        SubSeq(haystack, i, i + Len(needle) - 1) = needle

\* method.upper()
upper(method) ==
    CASE method = "get" -> "GET"
      [] method = "head" -> "HEAD"
      [] method = "options" -> "OPTIONS"
      [] OTHER -> method

IsPrefix(s, t) == Len(s) <= Len(t) /\ SubSeq(t, 1, Len(s)) = s

(***************************************************************************)
(* HTTP responses and transport events.                                    *)
(***************************************************************************)
ACAO == "Access-Control-Allow-Origin"
ACAH == "Access-Control-Allow-Headers"
ACAM == "Access-Control-Allow-Methods"

\* an element of a JSON list body: a dict (with or without "id"), a string,
\* or anything else; v is the "id" value or the string
Dict(id) == [t |-> "dict", hasId |-> TRUE, v |-> id]
DictNoId == [t |-> "dict", hasId |-> FALSE, v |-> <<>>]
Str(s) == [t |-> "str", hasId |-> FALSE, v |-> s]
Num == [t |-> "num", hasId |-> FALSE, v |-> <<>>]

\* response.headers: the names present, and the Allow-Methods value
Headers(names, allowMethods) == [names |-> names, allowMethods |-> allowMethods]

\* a body: whether response.json() parses, whether the value is a list, its
\* elements, and whether jsonschema.validate accepts it against the schema
NonJson == [json |-> FALSE, list |-> FALSE, items |-> <<>>, conforms |-> FALSE]
JsonObject(ok) == [json |-> TRUE, list |-> FALSE, items |-> <<>>, conforms |-> ok]
JsonList(items, ok) == [json |-> TRUE, list |-> TRUE, items |-> items, conforms |-> ok]

Response(code, headers, body) == [status_code |-> code, headers |-> headers, body |-> body]
NoResponse == Response(0, Headers({}, <<>>), NonJson)

\* what requests.Session.send did: returned a response, or raised exc with str(e) = text
Returned(r) == [exc |-> "none", text |-> "", r |-> r]
Raised(exc, text) == [exc |-> exc, text |-> text, r |-> NoResponse]

\* the requests.exceptions classes each raised exception is an instance of
Bases(exc) ==
    CASE exc = "ConnectTimeout" -> {"Timeout", "ConnectionError", "RequestException"}
      [] exc = "ReadTimeout" -> {"Timeout", "RequestException"}
      [] exc = "TooManyRedirects" -> {"TooManyRedirects", "RequestException"}
      [] exc = "ConnectionError" -> {"ConnectionError", "RequestException"}
      [] exc = "InvalidURL" -> {"RequestException"}
      [] OTHER -> {}

\* do_request: (True, r) or (False, description)
do_request(ev) ==
    IF ev.exc = "none" THEN [valid |-> TRUE, r |-> ev.r, err |-> ""]
    ELSE IF "Timeout" \in Bases(ev.exc)
         THEN [valid |-> FALSE, r |-> NoResponse, err |-> "Connection timeout"]
    ELSE IF "TooManyRedirects" \in Bases(ev.exc)
         THEN [valid |-> FALSE, r |-> NoResponse, err |-> "Too many redirects"]
    ELSE [valid |-> FALSE, r |-> NoResponse, err |-> ev.text]

(***************************************************************************)
(* Test outcomes (TestResult.Test).                                        *)
(***************************************************************************)
\* a message: a format text with the value it was formatted with
Msg(fmt, code, hdrs, text) == [fmt |-> fmt, code |-> code, hdrs |-> hdrs, text |-> text]
Text(s) == Msg(s, 0, Headers({}, <<>>), "")
NoMsg == Text("")

Outcome(name, state, detail) == [name |-> name, state |-> state, detail |-> detail]
PASS(name) == Outcome(name, "Pass", NoMsg)
FAIL(name, detail) == Outcome(name, "Fail", detail)
NA(name, detail) == Outcome(name, "N/A", detail)
MANUAL(name, detail) == Outcome(name, "Manual", detail)
\* no outcome (None)
NoOutcome == Outcome(<<>>, "", NoMsg)

(***************************************************************************)
(* The response validator.                                                 *)
(***************************************************************************)
\* faulty variant: the OPTIONS branch is dropped
validate_CORS_NoPreflight(method, response) ==
    ACAO \in response.headers.names

validate_CORS(method, response) ==
    IF ACAO \notin response.headers.names THEN FALSE
    ELSE IF method = "OPTIONS"
         THEN IF ACAH \notin response.headers.names THEN FALSE
              ELSE IF ACAM \notin response.headers.names THEN FALSE
              ELSE IF ~contains(response.headers.allowMethods, <<method>>) THEN FALSE
              ELSE TRUE
    ELSE TRUE

\* faulty variant: the body is inspected before the headers
check_response_BodyFirst(schema, method, response) ==
    IF ~response.body.json THEN <<FALSE, Text("Invalid JSON received")>>
    ELSE IF ~response.body.conforms THEN <<FALSE, Text("Response schema validation error")>>
    ELSE IF ~validate_CORS(method, response)
         THEN <<FALSE, Msg("Incorrect CORS headers: {}", 0, response.headers, "")>>
    ELSE <<TRUE, NoMsg>>

check_response(schema, method, response) ==
    IF ~validate_CORS(method, response)
    THEN <<FALSE, Msg("Incorrect CORS headers: {}", 0, response.headers, "")>>
    ELSE IF ~response.body.json THEN <<FALSE, Text("Invalid JSON received")>>
    ELSE IF ~response.body.conforms THEN <<FALSE, Text("Response schema validation error")>>
    ELSE <<TRUE, NoMsg>>

(***************************************************************************)
(* The subresource cache.                                                  *)
(***************************************************************************)
RECURSIVE subresources_DictOnly(_)
\* faulty variant: only dicts with an "id" are harvested
subresources_DictOnly(items) ==
    IF Len(items) = 0 THEN <<>>
    ELSE LET entry == items[1]
             rest == subresources_DictOnly(Tail(items))
         IN IF entry.t = "dict" /\ entry.hasId THEN <<entry.v>> \o rest
            ELSE rest

RECURSIVE subresources(_)
\* the identifiers save_subresources extracts from the elements of a list body
subresources(items) ==
    IF Len(items) = 0 THEN <<>>
    ELSE LET entry == items[1]
             rest == subresources(Tail(items))
         IN IF entry.t = "dict" /\ entry.hasId THEN <<entry.v>> \o rest
            ELSE IF entry.t = "str" /\ endswith(entry.v, "/")
                 THEN <<rstrip(entry.v, "/")>> \o rest
            ELSE rest

\* the list `subresources` built from a response (empty when response.json()
\* raises or is not a list)
extracted(response) ==
    IF response.body.json /\ response.body.list
    THEN subresources(response.body.items) ELSE <<>>

\* faulty variant: a later harvest replaces the entry instead of extending it
store_Overwrite(cache, path, found) ==
    IF Len(found) > 0
    THEN [p \in DOMAIN cache \cup {path} |-> IF p = path THEN found ELSE cache[p]]
    ELSE cache

\* faulty variant: what is found is put in front of the entry
store_Prepend(cache, path, found) ==
    IF Len(found) > 0
    THEN [p \in DOMAIN cache \cup {path} |->
            IF p = path
            THEN IF path \notin DOMAIN cache THEN found ELSE found \o cache[path]
            ELSE cache[p]]
    ELSE cache

\* faulty variant: an entry is created even when nothing was found
store_EmptyEntry(cache, path, found) ==
    [p \in DOMAIN cache \cup {path} |->
        IF p = path
        THEN IF path \notin DOMAIN cache THEN found ELSE cache[path] \o found
        ELSE cache[p]]

\* lines 283-287: create the entry or extend it, only when something was found
store(cache, path, found) ==
    IF Len(found) > 0
    THEN [p \in DOMAIN cache \cup {path} |->
             IF p = path
             THEN IF path \notin DOMAIN cache THEN found ELSE cache[path] \o found
             ELSE cache[p]]
    ELSE cache

\* self.saved_entities after save_subresources(path, response)
save_subresources(cache, path, response) == store(cache, path, extracted(response))

(***************************************************************************)
(* The catalog: what Specification.get_reads and get_schema expose.        *)
(***************************************************************************)
\* one readable endpoint: resource[0] is path; resource[1] has method, params
\* (the parameter names) and responses (the status codes); schema tells
\* whether get_schema finds a schema for this endpoint's 200 response
Resource(path, method, params, responses, schema) ==
    [path |-> path, method |-> method, params |-> params,
     responses |-> responses, schema |-> schema]

\* one entry of self.apis
Api(name, host, reads) ==
    [name |-> name, base_url |-> <<host>>,
     url |-> <<host, "/", "x-nmos", "/", name, "/", "v1.2", "/">>,
     reads |-> reads]

\* an API instance whose url is given without a trailing "/"
ApiBare(name, host, reads) ==
    [name |-> name, base_url |-> <<host>>,
     url |-> <<host, "/", "x-nmos", "/", name, "/", "v1.2">>,
     reads |-> reads]

get_schema(resource, status_code) == resource.schema /\ status_code = 200

(***************************************************************************)
(* check_base_path and check_api_resource.                                 *)
(***************************************************************************)
\* faulty variant: the cross-origin headers of a bootstrap answer are not checked
check_base_path_NoCors(path, expectation, ev) ==
    LET test == <<"GET", " ">> \o path
        req == do_request(ev)
    IN IF ~req.valid THEN FAIL(test, Msg("Unable to connect to API: {}", 0, Headers({}, <<>>), req.err))
       ELSE IF req.r.status_code # 200
            THEN FAIL(test, Msg("Incorrect response code: {}", req.r.status_code, Headers({}, <<>>), ""))
       ELSE IF ~req.r.body.json THEN FAIL(test, Text("Non-JSON response returned"))
       ELSE IF ~req.r.body.list
               \/ ~(\E i \in 1..Len(req.r.body.items) : req.r.body.items[i] = Str(expectation))
            THEN FAIL(test, Msg("Response is not an array containing '{}'", 0, Headers({}, <<>>), expectation[1]))
       ELSE PASS(test)

\* check_base_path from the answer to its request on
check_base_path(path, expectation, ev) ==
    LET test == <<"GET", " ">> \o path
        req == do_request(ev)
    IN IF ~req.valid THEN FAIL(test, Msg("Unable to connect to API: {}", 0, Headers({}, <<>>), req.err))
       ELSE IF req.r.status_code # 200
            THEN FAIL(test, Msg("Incorrect response code: {}", req.r.status_code, Headers({}, <<>>), ""))
       ELSE IF ~validate_CORS("GET", req.r)
            THEN FAIL(test, Msg("Incorrect CORS headers: {}", 0, req.r.headers, ""))
       ELSE IF ~req.r.body.json THEN FAIL(test, Text("Non-JSON response returned"))
       ELSE IF ~req.r.body.list
               \/ ~(\E i \in 1..Len(req.r.body.items) : req.r.body.items[i] = Str(expectation))
            THEN FAIL(test, Msg("Response is not an array containing '{}'", 0, Headers({}, <<>>), expectation[1]))
       ELSE PASS(test)

\* the test name of a per-endpoint check
test_name(resource, api, version, suffix) ==
    <<upper(resource.method), " ", "/", "x-nmos", "/", api.name, "/", version>> \o suffix

\* faulty variant: the trailing separators of the parent path are kept
parent_path_NoStrip(resource) == split_head(resource.path, "{")

\* line 216: the cache key a one-parameter endpoint is looked up under
parent_path(resource) == rstrip(split_head(resource.path, "{"), "/")

\* faulty variant: the most recently harvested identifier is picked
pick_entity_Last(entities) == entities[Len(entities)]

\* line 219: the identifier substituted into the template
pick_entity(entities) == entities[1]

\* faulty variant: the cache is not consulted before the URL is built
resolve_Unchecked(resource, api, version, cache) ==
    IF Len(resource.params) = 1
    THEN [kind |-> "url",
          url |-> rstrip(api.url, "/") \o resource.path,
          test |-> test_name(resource, api, version, rstrip(resource.path, "/"))]
    ELSE IF Len(resource.params) = 0
         THEN [kind |-> "url",
               url |-> rstrip(api.url, "/") \o resource.path,
               test |-> test_name(resource, api, version, rstrip(resource.path, "/"))]
    ELSE [kind |-> "none", url |-> <<>>, test |-> <<>>]

\* faulty variant: an endpoint with several parameters is reported as N/A
resolve_MultiNA(resource, api, version, cache) ==
    IF Len(resource.params) = 1
    THEN LET path == parent_path(resource)
         IN IF path \in DOMAIN cache
            THEN LET url_param == format(resource.path, resource.params[1], pick_entity(cache[path]))
                 IN [kind |-> "url",
                     url |-> rstrip(api.url, "/") \o url_param,
                     test |-> test_name(resource, api, version, url_param)]
            ELSE [kind |-> "na", url |-> <<>>,
                  test |-> test_name(resource, api, version, rstrip(resource.path, "/"))]
    ELSE IF Len(resource.params) = 0
         THEN [kind |-> "url",
               url |-> rstrip(api.url, "/") \o resource.path,
               test |-> test_name(resource, api, version, rstrip(resource.path, "/"))]
    ELSE [kind |-> "na", url |-> <<>>,
          test |-> test_name(resource, api, version, rstrip(resource.path, "/"))]

\* faulty variant: the URL of a parameterless endpoint depends on the cache
resolve_ZeroParamCached(resource, api, version, cache) ==
    IF Len(resource.params) = 1
    THEN LET path == parent_path(resource)
         IN IF path \in DOMAIN cache
            THEN LET url_param == format(resource.path, resource.params[1], pick_entity(cache[path]))
                 IN [kind |-> "url",
                     url |-> rstrip(api.url, "/") \o url_param,
                     test |-> test_name(resource, api, version, url_param)]
            ELSE [kind |-> "na", url |-> <<>>,
                  test |-> test_name(resource, api, version, rstrip(resource.path, "/"))]
    ELSE IF Len(resource.params) = 0
         THEN [kind |-> "url",
               url |-> IF resource.path \in DOMAIN cache
                       THEN rstrip(api.url, "/") \o resource.path \o <<"/">> \o pick_entity(cache[resource.path])
                       ELSE rstrip(api.url, "/") \o resource.path,
               test |-> test_name(resource, api, version, rstrip(resource.path, "/"))]
    ELSE [kind |-> "none", url |-> <<>>, test |-> <<>>]

\* lines 215-243: what check_api_resource does before any request:
\* "url" (a request follows), "na" (an N/A outcome) or "none" (returns None)
resolve(resource, api, version, cache) ==
    IF Len(resource.params) = 1
    THEN LET path == parent_path(resource)
         IN IF path \in DOMAIN cache
            THEN LET url_param == format(resource.path, resource.params[1], pick_entity(cache[path]))
                 IN [kind |-> "url",
                     url |-> rstrip(api.url, "/") \o url_param,
                     test |-> test_name(resource, api, version, url_param)]
            ELSE [kind |-> "na", url |-> <<>>,
                  test |-> test_name(resource, api, version, rstrip(resource.path, "/"))]
    ELSE IF Len(resource.params) = 0
         THEN [kind |-> "url",
               url |-> rstrip(api.url, "/") \o resource.path,
               test |-> test_name(resource, api, version, rstrip(resource.path, "/"))]
    ELSE [kind |-> "none", url |-> <<>>, test |-> <<>>]

\* faulty variant: a transport failure is reported without its description
respond_NoDescription(resource, response_code, test, ev) ==
    LET req == do_request(ev)
    IN IF ~req.valid THEN FAIL(test, Text("Request failed"))
       ELSE IF req.r.status_code # response_code
            THEN FAIL(test, Msg("Incorrect response code: {}", req.r.status_code, Headers({}, <<>>), ""))
       ELSE IF ~get_schema(resource, req.r.status_code)
            THEN MANUAL(test, Text("Test suite unable to locate schema"))
       ELSE LET v == check_response(TRUE, resource.method, req.r)
            IN IF v[1] THEN PASS(test) ELSE FAIL(test, v[2])

\* faulty variant: the validator's verdict is not looked at
respond_IgnoreVerdict(resource, response_code, test, ev) ==
    LET req == do_request(ev)
    IN IF ~req.valid THEN FAIL(test, Text(req.err))
       ELSE IF req.r.status_code # response_code
            THEN FAIL(test, Msg("Incorrect response code: {}", req.r.status_code, Headers({}, <<>>), ""))
       ELSE IF ~get_schema(resource, req.r.status_code)
            THEN MANUAL(test, Text("Test suite unable to locate schema"))
       ELSE PASS(test)

\* faulty variant: the schema is looked up before the status code is compared
respond_SchemaFirst(resource, response_code, test, ev) ==
    LET req == do_request(ev)
    IN IF ~req.valid THEN FAIL(test, Text(req.err))
       ELSE IF ~get_schema(resource, req.r.status_code)
            THEN MANUAL(test, Text("Test suite unable to locate schema"))
       ELSE IF req.r.status_code # response_code
            THEN FAIL(test, Msg("Incorrect response code: {}", req.r.status_code, Headers({}, <<>>), ""))
       ELSE LET v == check_response(TRUE, resource.method, req.r)
            IN IF v[1] THEN PASS(test) ELSE FAIL(test, v[2])

\* lines 245-265: the outcome of check_api_resource once its request is answered
respond(resource, response_code, test, ev) ==
    LET req == do_request(ev)
    IN IF ~req.valid THEN FAIL(test, Text(req.err))
       ELSE IF req.r.status_code # response_code
            THEN FAIL(test, Msg("Incorrect response code: {}", req.r.status_code, Headers({}, <<>>), ""))
       ELSE IF ~get_schema(resource, req.r.status_code)
            THEN MANUAL(test, Text("Test suite unable to locate schema"))
       ELSE LET v == check_response(TRUE, resource.method, req.r)
            IN IF v[1] THEN PASS(test) ELSE FAIL(test, v[2])

\* faulty variant: every answer is harvested
harvesting_Always(response_code, ev) == TRUE

\* lines 245-253: whether check_api_resource reaches save_subresources
harvesting(response_code, ev) ==
    LET req == do_request(ev)
    IN req.valid /\ req.r.status_code = response_code

(***************************************************************************)
(* IS0402Test: the named checks test_01 .. test_19.                        *)
(***************************************************************************)
\* the test_ methods of IS0402Test in the order dir(self) lists them
NamedTests ==
    <<"test_01", "test_02", "test_03", "test_04", "test_05", "test_06", "test_07",
      "test_08", "test_09", "test_10", "test_11", "test_12", "test_13", "test_14",
      "test_15", "test_16", "test_17", "test_18", "test_19">>

MdnsTests == {"test_01", "test_02"}
AcceptTests == {"test_03", "test_05", "test_07", "test_09", "test_11", "test_13"}
RejectTests == {"test_04", "test_06", "test_08", "test_10", "test_12", "test_14"}
ManualTests == {"test_15", "test_16"}
QueryTests == {"test_17", "test_18", "test_19"}

\* the resource type a registration check posts
resource_type(m) ==
    CASE m \in {"test_03", "test_04"} -> "Node"
      [] m \in {"test_05", "test_06"} -> "Device"
      [] m \in {"test_07", "test_08"} -> "Source"
      [] m \in {"test_09", "test_10"} -> "Flow"
      [] m \in {"test_11", "test_12"} -> "Sender"
      [] m \in {"test_13", "test_14"} -> "Receiver"
      [] OTHER -> ""

\* Test(...): the name each method gives its outcome
Title(m) ==
    CASE m = "test_01" -> <<"Registration API advertises correctly via mDNS">>
      [] m = "test_02" -> <<"Query API advertises correctly via mDNS">>
      [] m \in AcceptTests ->
            <<"Registration API accepts and stores a valid", " ", resource_type(m), " ", "resource">>
      [] m \in RejectTests ->
            <<"Registration API rejects an invalid", " ", resource_type(m), " ",
              "resource with a 400 HTTP code">>
      [] m = "test_15" -> <<"Query API implements pagination">>
      [] m = "test_16" -> <<"Query API implements downgrade queries">>
      [] m = "test_17" -> <<"Query API implements basic query parameters">>
      [] m = "test_18" -> <<"Query API implements RQL">>
      [] m = "test_19" -> <<"Query API implements ancestry queries">>
      [] OTHER -> <<>>

\* test_01, test_02: the outcome for what the mDNS listener has seen: no
\* matching announcement, a well-formed one, or one without its 'pri' record
mdns_check(m, adv) ==
    LET api == IF m = "test_01" THEN "Registration" ELSE "Query"
    IN IF adv = "valid" THEN PASS(Title(m))
       ELSE IF adv = "nopri"
            THEN FAIL(Title(m), Msg("No 'pri' TXT record found in {} API advertisement.",
                                    0, Headers({}, <<>>), api))
       ELSE FAIL(Title(m), Msg("No matching mDNS announcement found for {} API.",
                               0, Headers({}, <<>>), api))

\* what a method returns before it sends any request (NoOutcome: it sends one)
early(m, version) ==
    IF m \in AcceptTests /\ version # "v1.2"
    THEN MANUAL(Title(m),
             Text("This test cannot currently be performed for API versions other than v1.2"))
    ELSE IF m \in ManualTests \cup {"test_18", "test_19"} /\ version = "v1.0"
         THEN NA(Title(m), Text("This test does not apply to v1.0"))
    ELSE IF m \in ManualTests THEN MANUAL(Title(m), NoMsg)
    ELSE NoOutcome

\* test_03, test_05, ..: the outcome from the answer to the POST (lines 148-153)
accept_check(m, ev) ==
    LET req == do_request(ev)
    IN IF ~req.valid THEN FAIL(Title(m), Text("Registration API did not respond as expected"))
       ELSE IF req.r.status_code = 201 THEN PASS(Title(m))
       ELSE FAIL(Title(m), Msg("Registration API returned an unexpected response: {} {}",
                               req.r.status_code, Headers({}, <<>>), ""))

\* get_schema("registration", "POST", "/resource", 400): the RAML of the
\* Registration API declares a schema for this response
schema_400 == TRUE

\* faulty variant: the status code is not looked at
do_400_check_NoStatus(test, ev) ==
    LET req == do_request(ev)
    IN IF ~req.valid THEN FAIL(test, Text(req.err))
       ELSE LET v == check_response(schema_400, "POST", req.r)
            IN IF v[1] THEN PASS(test) ELSE FAIL(test, v[2])

\* do_400_check from the answer to its POST on (lines 420-432)
do_400_check(test, ev) ==
    LET req == do_request(ev)
    IN IF ~req.valid THEN FAIL(test, Text(req.err))
       ELSE IF req.r.status_code # 400
            THEN FAIL(test, Msg("Registration API returned a {} code for an invalid registration",
                                req.r.status_code, Headers({}, <<>>), ""))
       ELSE LET v == check_response(schema_400, "POST", req.r)
            IN IF v[1] THEN PASS(test) ELSE FAIL(test, v[2])

\* len(r.json()) of a body that parses
len_json(body) == Len(body.items)

\* what a step of a named check leads to: an outcome, the next request of the
\* same check, or an exception that leaves the method
Returns(o) == [kind |-> "outcome", outcome |-> o]
Continues == [kind |-> "next", outcome |-> NoOutcome]
Raises == [kind |-> "raise", outcome |-> NoOutcome]

\* test_17 .. test_19: the answer to the first GET, inside try/except
\* JSONDecodeError (lines 340-347, 367-374, 396-403)
query_first(m, ev) ==
    LET req == do_request(ev)
        what == IF m = "test_19" THEN "Sources" ELSE "Nodes"
    IN IF ~req.valid THEN Returns(FAIL(Title(m), Text("Query API failed to respond to query")))
       ELSE IF ~req.r.body.json THEN Returns(FAIL(Title(m), Text("Non-JSON response returned")))
       ELSE IF len_json(req.r.body) = 0
            THEN Returns(NA(Title(m), Msg("No {} found in registry. Test cannot proceed.",
                                          0, Headers({}, <<>>), what)))
       ELSE Continues

\* test_17 .. test_19: the answer to the second GET, outside any try
\* (lines 351-357, 378-386, 407-415)
query_second(m, ev) ==
    LET req == do_request(ev)
    IN IF ~req.valid THEN Returns(FAIL(Title(m), Text("Query API failed to respond to query")))
       ELSE IF m # "test_17" /\ req.r.status_code = 501
            THEN Returns(NA(Title(m),
                     IF m = "test_18"
                     THEN Text("Query API signalled that it does not support RQL queries")
                     ELSE Text("Query API signalled that it does not support ancestry queries")))
       ELSE IF ~req.r.body.json THEN Raises
       ELSE IF len_json(req.r.body) > 0
            THEN Returns(FAIL(Title(m),
                     Text("Query API returned more records than expected for query: {}")))
       ELSE Returns(PASS(Title(m)))

\* the outcome of the answer to the request a named check has in flight
answer_named(m, stage, ev) ==
    IF m \in AcceptTests THEN Returns(accept_check(m, ev))
    ELSE IF m \in RejectTests THEN Returns(do_400_check(Title(m), ev))
    ELSE IF stage = 0 THEN query_first(m, ev)
    ELSE query_second(m, ev)

(***************************************************************************)
(* The servers' answers and the scenarios the engine is constructed for.   *)
(***************************************************************************)
CorsOk == Headers({ACAO}, <<>>)
Id(x) == <<x>>

\* the answers a server gives to a per-endpoint request in a run
Timeout == Raised("ReadTimeout", "timed out")
NotFound == Returned(Response(404, CorsOk, JsonList(<<Dict(Id("c"))>>, TRUE)))
GoodAB == Returned(Response(200, CorsOk, JsonList(<<Dict(Id("a")), Dict(Id("b"))>>, TRUE)))
GoodBA == Returned(Response(200, CorsOk,
              JsonList(<<Str(<<"b", "/">>), Dict(Id("a")), DictNoId, Str(<<"c">>)>>, TRUE)))
BadSchema == Returned(Response(200, CorsOk, JsonList(<<Dict(Id("b"))>>, FALSE)))
NoCors == Returned(Response(200, Headers({}, <<>>), JsonList(<<Dict(Id("c"))>>, TRUE)))
Garbage == Returned(Response(200, CorsOk, NonJson))
Object == Returned(Response(200, CorsOk, JsonObject(TRUE)))
Refused == Raised("ConnectionError", "connection refused")

Redirects == Raised("TooManyRedirects", "exceeded 30 redirects")
BadUrl == Raised("InvalidURL", "invalid url")

RunEvents == {Timeout, Refused, NotFound, GoodAB, GoodBA, BadSchema, NoCors, Garbage, Object}

\* a body that satisfies both bootstrap checks of every API of the scenarios
Roots == Returned(Response(200, CorsOk,
             JsonList(<<Str(<<"registration", "/">>), Str(<<"query", "/">>), Str(<<"v1.2", "/">>)>>, TRUE)))

Nodes == Resource(<<"/", "nodes">>, "GET", <<>>, {200}, TRUE)
NodesOptions == Resource(<<"/", "nodes">>, "OPTIONS", <<>>, {200}, TRUE)
Node == Resource(<<"/", "nodes", "/", "{", "nodeId", "}">>, "GET", <<"nodeId">>, {200, 404}, TRUE)
NodeNoSchema == Resource(<<"/", "nodes", "/", "{", "nodeId", "}">>, "GET", <<"nodeId">>, {200}, FALSE)
NodeDevice == Resource(<<"/", "nodes", "/", "{", "nodeId", "}", "/", "devices", "/", "{", "deviceId", "}">>,
                       "GET", <<"nodeId", "deviceId">>, {200}, TRUE)
Gone == Resource(<<"/", "gone">>, "GET", <<>>, {404}, TRUE)
HealthPath == <<"/", "health", "/", "nodes", "/", "{", "nodeId", "}">>
Health == Resource(HealthPath, "GET", <<"nodeId">>, {200}, TRUE)

\* two API instances whose catalogs share the templates /nodes and /nodes/{nodeId}
TwoApis ==
    [apis |-> <<ApiBare("registration", "hostR", <<Nodes>>),
                Api("query", "hostQ", <<Node, Nodes>>)>>,
     omit_paths |-> {}, methods |-> <<>>, version |-> "v1.2",
     env |-> [max_runs |-> 1, events |-> RunEvents \ {Refused, Object},
              base_events |-> {Timeout, Roots}]]

\* one API instance with every shape of endpoint and the omit list of IS0402Test
OneApi ==
    [apis |-> <<Api("query", "hostQ",
                    <<Node, Health, Nodes, NodeDevice, Gone, NodesOptions, NodeNoSchema>>)>>,
     omit_paths |-> {HealthPath}, methods |-> <<>>, version |-> "v1.2",
     env |-> [max_runs |-> 1, events |-> (RunEvents \ {Refused}) \cup {Redirects, BadUrl},
              base_events |-> {Timeout, NotFound, NoCors, Garbage, Object, Roots}]]

\* one engine whose run_tests is called MaxRuns times
Rerun ==
    [apis |-> <<Api("query", "hostQ", <<Nodes, Node>>)>>,
     omit_paths |-> {}, methods |-> <<>>, version |-> "v1.2",
     env |-> [max_runs |-> MaxRuns, events |-> {Refused, GoodAB, GoodBA},
              base_events |-> {Roots}]]

\* one API whose list endpoint is read twice, each time followed by a
\* one-parameter endpoint under it
Stable ==
    [apis |-> <<Api("query", "hostQ", <<Nodes, Node, NodesOptions, NodeNoSchema>>)>>,
     omit_paths |-> {}, methods |-> <<>>, version |-> "v1.2",
     env |-> [max_runs |-> 1, events |-> {GoodAB, GoodBA}, base_events |-> {Roots}]]

\* the answers of a registry to the requests of the named checks
Created == Returned(Response(201, CorsOk, JsonObject(TRUE)))
Rejected == Returned(Response(400, CorsOk, JsonObject(TRUE)))
RejectedBadBody == Returned(Response(400, CorsOk, JsonObject(FALSE)))
RejectedNoCors == Returned(Response(400, Headers({}, <<>>), JsonObject(TRUE)))
RejectedGarbage == Returned(Response(400, CorsOk, NonJson))
Empty == Returned(Response(200, CorsOk, JsonList(<<>>, TRUE)))
Unsupported == Returned(Response(501, CorsOk, NonJson))

PostValidAnswers == {Created, Rejected, Refused}
PostInvalidAnswers ==
    {Rejected, RejectedBadBody, RejectedNoCors, RejectedGarbage, Created, Refused, Timeout}
FirstAnswers == {GoodAB, Empty, Garbage, Refused}
SecondAnswers == {Empty, GoodAB, Garbage, Refused, Unsupported}

\* a registry: how it answers a valid registration, an invalid one, the
\* first and the second GET of a query check, and what mDNS shows
RegistryEnv(max_runs, mdns, post_valid, post_invalid, get1, get2) ==
    [max_runs |-> max_runs, events |-> {GoodAB}, base_events |-> {Roots}, mdns |-> mdns,
     post_valid |-> post_valid, post_invalid |-> post_invalid, get1 |-> get1, get2 |-> get2]

Adverts == {"valid", "none", "nopri"}

RegistryEnvs ==
    {RegistryEnv(1, Adverts, pv, Rejected, GoodAB, Empty) : pv \in PostValidAnswers}
    \cup {RegistryEnv(1, Adverts, Created, pi, GoodAB, Empty) : pi \in PostInvalidAnswers}
    \cup {RegistryEnv(1, Adverts, Created, Rejected, g1, g2) :
              g1 \in FirstAnswers, g2 \in SecondAnswers}
    \cup {RegistryEnv(MaxRuns, {"valid"}, Created, Rejected, GoodAB, Empty)}

\* IS0402Test constructed for a registration and a query API (lines 30-37)
Registry(version, e) ==
    [apis |-> <<Api("registration", "hostR", <<>>), Api("query", "hostQ", <<Nodes>>)>>,
     omit_paths |-> {HealthPath}, methods |-> NamedTests, version |-> version, env |-> e]

Registries == {Registry(version, e) : version \in {"v1.2", "v1.0"}, e \in RegistryEnvs}

Scenarios == {TwoApis, OneApi, Rerun, Stable} \cup Registries

(***************************************************************************)
(* The run: run_tests -> execute_tests -> basics.                          *)
(***************************************************************************)
At(phase, api, res) == [phase |-> phase, api |-> api, res |-> res]
NoRequest == [method |-> "", url |-> <<>>]
NoEvent == Raised("", "")
NoCall == [fn |-> "", method |-> "", schema |-> FALSE, arg |-> "", ev |-> NoEvent,
           path |-> <<>>, res |-> <<>>, url |-> <<>>,
           done |-> FALSE, valid |-> FALSE, message |-> NoMsg, outcome |-> NoOutcome]

\* the state after __init__ (lines 33-48)
Init ==
    /\ \E s \in Scenarios :
          /\ apis = s.apis
          /\ omit_paths = s.omit_paths
          /\ env = s.env
          /\ methods = s.methods
          /\ test_version = s.version
    /\ saved_entities = << >>
    /\ result = << >>
    /\ results = << >>
    /\ checks = << >>
    /\ pc = At("idle", 0, 0)
    /\ inflight = NoRequest
    /\ last = NoEvent
    /\ nreq = 0
    /\ harvests = << >>
    /\ runs = 0
    /\ call = NoCall

config == <<apis, test_version, omit_paths, env, methods, call>>

\* faulty variant: only the first API gets its bootstrap checks
after_api_NoBootstrap(a) ==
    IF a = 0 THEN At("base1", 1, 0)
    ELSE IF a < Len(apis) THEN At("reads", a + 1, 1) ELSE At("return", 0, 0)

\* where basics() goes after the API at index a: the next API, or its return
\* (line 83: self.result += self.basics(); no test_ method in GenericTest)
after_api(a) ==
    IF a < Len(apis) THEN At("base1", a + 1, 0) ELSE At("return", 0, 0)

\* run_tests is called (line 91); basics() starts with results = []
run_tests ==
    /\ pc.phase = "idle"
    /\ runs < env.max_runs
    /\ runs' = runs + 1
    /\ results' = << >>
    /\ checks' = << >>
    /\ pc' = after_api(0)
    /\ last' = NoEvent
    /\ UNCHANGED <<config, saved_entities, result, inflight, nreq, harvests>>

\* the two bootstrap paths of an API and what each must list (lines 195-197)
base_path(api, phase) ==
    IF phase = "base1" THEN <<"/", "x-nmos">> ELSE <<"/", "x-nmos", "/", api.name>>
base_expectation(api, phase) ==
    IF phase = "base1" THEN <<api.name, "/">> ELSE <<test_version, "/">>

\* check_base_path sends its request (line 133)
base_send ==
    /\ pc.phase \in {"base1", "base2"}
    /\ inflight = NoRequest
    /\ inflight' = [method |-> "GET", url |-> apis[pc.api].base_url \o base_path(apis[pc.api], pc.phase)]
    /\ nreq' = nreq + 1
    /\ last' = NoEvent
    /\ UNCHANGED <<config, saved_entities, result, results, checks, pc, harvests, runs>>

\* faulty variant: the bootstrap check harvests its answer as well
base_recv_Harvest ==
    /\ pc.phase \in {"base1", "base2"}
    /\ inflight # NoRequest
    /\ \E ev \in env.base_events :
          /\ last' = ev
          /\ results' = Append(results,
                 check_base_path(base_path(apis[pc.api], pc.phase),
                                 base_expectation(apis[pc.api], pc.phase), ev))
          /\ saved_entities' = IF harvesting(200, ev)
                               THEN save_subresources(saved_entities,
                                        base_path(apis[pc.api], pc.phase), ev.r)
                               ELSE saved_entities
    /\ checks' = Append(checks, [kind |-> "base", api |-> pc.api, res |-> 0, req |-> TRUE])
    /\ inflight' = NoRequest
    /\ pc' = IF pc.phase = "base1" THEN At("base2", pc.api, 0) ELSE At("reads", pc.api, 1)
    /\ UNCHANGED <<config, result, nreq, harvests, runs>>

\* check_base_path gets its answer and returns its outcome (lines 134-148)
base_recv ==
    /\ pc.phase \in {"base1", "base2"}
    /\ inflight # NoRequest
    /\ \E ev \in env.base_events :
          /\ last' = ev
          /\ results' = Append(results,
                 check_base_path(base_path(apis[pc.api], pc.phase),
                                 base_expectation(apis[pc.api], pc.phase), ev))
    /\ checks' = Append(checks, [kind |-> "base", api |-> pc.api, res |-> 0, req |-> TRUE])
    /\ inflight' = NoRequest
    /\ pc' = IF pc.phase = "base1" THEN At("base2", pc.api, 0) ELSE At("reads", pc.api, 1)
    /\ UNCHANGED <<config, saved_entities, result, nreq, harvests, runs>>

\* the resource the loop of line 199 is at
resource == apis[pc.api].reads[pc.res]
at_resource == pc.phase = "reads" /\ pc.res <= Len(apis[pc.api].reads)

\* faulty variant: the omit list is ignored
tested_All(r) == 200 \in r.responses

\* lines 200-201: the endpoint is checked for its 200 response unless omitted
tested(r) == 200 \in r.responses /\ r.path \notin omit_paths

\* an endpoint that is not checked: no 200 response, or omitted
reads_skip ==
    /\ at_resource /\ inflight = NoRequest
    /\ ~tested(resource)
    /\ pc' = At("reads", pc.api, pc.res + 1)
    /\ last' = NoEvent
    /\ UNCHANGED <<config, saved_entities, result, results, checks, inflight, nreq, harvests, runs>>

\* check_api_resource returns None (line 243): nothing is appended (line 203)
reads_none ==
    /\ at_resource /\ inflight = NoRequest
    /\ tested(resource)
    /\ resolve(resource, apis[pc.api], test_version, saved_entities).kind = "none"
    /\ pc' = At("reads", pc.api, pc.res + 1)
    /\ last' = NoEvent
    /\ UNCHANGED <<config, saved_entities, result, results, checks, inflight, nreq, harvests, runs>>

\* check_api_resource returns N/A (line 233)
reads_na ==
    /\ at_resource /\ inflight = NoRequest
    /\ tested(resource)
    /\ LET res == resolve(resource, apis[pc.api], test_version, saved_entities)
       IN /\ res.kind = "na"
          /\ results' = Append(results, NA(res.test, Text("No resources found to perform this test")))
    /\ checks' = Append(checks, [kind |-> "endpoint", api |-> pc.api, res |-> pc.res, req |-> FALSE])
    /\ pc' = At("reads", pc.api, pc.res + 1)
    /\ last' = NoEvent
    /\ UNCHANGED <<config, saved_entities, result, inflight, nreq, harvests, runs>>

\* faulty variant: the request is sent without waiting for the outstanding one
reads_send_Pipelined ==
    /\ at_resource
    /\ tested(resource)
    /\ LET res == resolve(resource, apis[pc.api], test_version, saved_entities)
       IN /\ res.kind = "url"
          /\ inflight' = [method |-> resource.method, url |-> res.url]
    /\ nreq' = nreq + 1
    /\ last' = NoEvent
    /\ UNCHANGED <<config, saved_entities, result, results, checks, pc, harvests, runs>>

\* check_api_resource sends its request (line 245)
reads_send ==
    /\ at_resource /\ inflight = NoRequest
    /\ tested(resource)
    /\ LET res == resolve(resource, apis[pc.api], test_version, saved_entities)
       IN /\ res.kind = "url"
          /\ inflight' = [method |-> resource.method, url |-> res.url]
    /\ nreq' = nreq + 1
    /\ last' = NoEvent
    /\ UNCHANGED <<config, saved_entities, result, results, checks, pc, harvests, runs>>

\* faulty variant: a request that failed in transport is sent again
reads_recv_Retry ==
    /\ at_resource /\ inflight # NoRequest
    /\ \E ev \in env.events :
          LET res == resolve(resource, apis[pc.api], test_version, saved_entities)
          IN /\ last' = ev
             /\ IF ev.exc # "none"
                THEN /\ nreq' = nreq + 1
                     /\ UNCHANGED <<results, saved_entities, harvests, checks, inflight, pc>>
                ELSE /\ results' = Append(results, respond(resource, 200, res.test, ev))
                     /\ IF harvesting(200, ev)
                        THEN /\ saved_entities' = save_subresources(saved_entities, resource.path, ev.r)
                             /\ harvests' = Append(harvests,
                                    [path |-> resource.path, api |-> apis[pc.api].name,
                                     found |-> extracted(ev.r), run |-> runs])
                        ELSE UNCHANGED <<saved_entities, harvests>>
                     /\ checks' = Append(checks, [kind |-> "endpoint", api |-> pc.api,
                                                  res |-> pc.res, req |-> TRUE])
                     /\ inflight' = NoRequest
                     /\ pc' = At("reads", pc.api, pc.res + 1)
                     /\ nreq' = nreq
    /\ UNCHANGED <<config, result, runs>>

\* check_api_resource gets its answer, harvests and returns its outcome
\* (lines 246-265), and basics appends it (line 204)
reads_recv ==
    /\ at_resource /\ inflight # NoRequest
    /\ \E ev \in env.events :
          LET res == resolve(resource, apis[pc.api], test_version, saved_entities)
          IN /\ last' = ev
             /\ results' = Append(results, respond(resource, 200, res.test, ev))
             /\ IF harvesting(200, ev)
                THEN /\ saved_entities' = save_subresources(saved_entities, resource.path, ev.r)
                     /\ harvests' = Append(harvests,
                            [path |-> resource.path, api |-> apis[pc.api].name,
                             found |-> extracted(ev.r), run |-> runs])
                ELSE UNCHANGED <<saved_entities, harvests>>
    /\ checks' = Append(checks, [kind |-> "endpoint", api |-> pc.api, res |-> pc.res, req |-> TRUE])
    /\ inflight' = NoRequest
    /\ pc' = At("reads", pc.api, pc.res + 1)
    /\ UNCHANGED <<config, result, nreq, runs>>

\* the loop of line 199 is over for this API: the next API (line 191) follows
next_api ==
    /\ pc.phase = "reads" /\ pc.res > Len(apis[pc.api].reads)
    /\ pc' = after_api(pc.api)
    /\ last' = NoEvent
    /\ UNCHANGED <<config, saved_entities, result, results, checks, inflight, nreq, harvests, runs>>

\* basics returns (line 206), execute_tests extends self.result (line 83) and
\* run_tests returns it (line 94)
run_return ==
    /\ pc.phase = "return"
    /\ Len(methods) = 0
    /\ result' = result \o results
    /\ pc' = At("idle", 0, 0)
    /\ UNCHANGED <<config, saved_entities, results, checks, inflight, last, nreq, harvests, runs>>

\* basics returns, execute_tests extends self.result (line 83) and starts
\* the loop over the test_ methods (line 84)
tests_begin ==
    /\ pc.phase = "return"
    /\ Len(methods) > 0
    /\ result' = result \o results
    /\ pc' = At("tests", 0, 1)
    /\ UNCHANGED <<config, saved_entities, results, checks, inflight, last, nreq, harvests, runs>>

\* the method the loop of line 84 is at; pc.api tells which of its requests
\* it is at (0: the first, 1: the second)
method_name == methods[pc.res]
at_test == pc.phase = "tests" /\ pc.res <= Len(methods)
ApiNamed(n) == apis[CHOOSE i \in 1..Len(apis) : apis[i].name = n]

\* the request a named check sends (self.reg_url, self.query_url: lines 36-37)
request_named(m, stage) ==
    IF m \in AcceptTests \cup RejectTests
    THEN [method |-> "POST", url |-> ApiNamed("registration").url \o <<"resource">>]
    ELSE [method |-> "GET",
          url |-> ApiNamed("query").url
                  \o (IF m = "test_19" THEN <<"sources">> ELSE <<"nodes">>)
                  \o (IF stage = 0 THEN <<>> ELSE <<"?", "query", "uuid">>)]

\* the registry's answer to that request
answers(m, stage) ==
    IF m \in AcceptTests THEN {env.post_valid}
    ELSE IF m \in RejectTests THEN {env.post_invalid}
    ELSE IF stage = 0 THEN {env.get1}
    ELSE {env.get2}

\* test_01, test_02 return their outcome and execute_tests appends it (line 89)
test_mdns ==
    /\ at_test /\ method_name \in MdnsTests
    /\ \E adv \in env.mdns : result' = Append(result, mdns_check(method_name, adv))
    /\ pc' = At("tests", 0, pc.res + 1)
    /\ last' = NoEvent
    /\ UNCHANGED <<config, saved_entities, results, checks, inflight, nreq, harvests, runs>>

\* a method returns before sending anything (version gates, test_15, test_16)
test_early ==
    /\ at_test /\ method_name \notin MdnsTests
    /\ inflight = NoRequest /\ pc.api = 0
    /\ early(method_name, test_version) # NoOutcome
    /\ result' = Append(result, early(method_name, test_version))
    /\ pc' = At("tests", 0, pc.res + 1)
    /\ last' = NoEvent
    /\ UNCHANGED <<config, saved_entities, results, checks, inflight, nreq, harvests, runs>>

\* a named check sends its first or its second request
test_send ==
    /\ at_test /\ method_name \notin MdnsTests
    /\ inflight = NoRequest
    /\ pc.api = 0 => early(method_name, test_version) = NoOutcome
    /\ inflight' = request_named(method_name, pc.api)
    /\ nreq' = nreq + 1
    /\ last' = NoEvent
    /\ UNCHANGED <<config, saved_entities, result, results, checks, pc, harvests, runs>>

\* a named check gets its answer: it returns an outcome, which execute_tests
\* appends (line 89), or goes on to its second request, or an exception
\* leaves the method
test_recv ==
    /\ at_test /\ inflight # NoRequest
    /\ \E ev \in answers(method_name, pc.api) :
          LET a == answer_named(method_name, pc.api, ev)
          IN /\ last' = ev
             /\ result' = IF a.kind = "outcome" THEN Append(result, a.outcome) ELSE result
             /\ pc' = IF a.kind = "outcome" THEN At("tests", 0, pc.res + 1)
                      ELSE IF a.kind = "next" THEN At("tests", 1, pc.res)
                      ELSE At("raising", 0, 0)
    /\ inflight' = NoRequest
    /\ UNCHANGED <<config, saved_entities, results, checks, nreq, harvests, runs>>

\* the exception leaves execute_tests and run_tests: nothing is returned
run_raise ==
    /\ pc.phase = "raising"
    /\ pc' = At("idle", 0, 0)
    /\ UNCHANGED <<config, saved_entities, result, results, checks, inflight, last, nreq,
                   harvests, runs>>

\* the loop of line 84 is over and run_tests returns self.result (line 94)
tests_return ==
    /\ pc.phase = "tests" /\ pc.res > Len(methods)
    /\ pc' = At("idle", 0, 0)
    /\ UNCHANGED <<config, saved_entities, result, results, checks, inflight, last, nreq,
                   harvests, runs>>

Next ==
    \/ run_tests
    \/ base_send
    \/ base_recv
    \/ reads_skip
    \/ reads_none
    \/ reads_na
    \/ reads_send
    \/ reads_recv
    \/ next_api
    \/ run_return
    \/ tests_begin
    \/ test_mdns
    \/ test_early
    \/ test_send
    \/ test_recv
    \/ run_raise
    \/ tests_return

Spec == Init /\ [][Next]_vars

(***************************************************************************)
(* The validator on its own: validate_CORS, check_response and the         *)
(* response handling of check_api_resource applied to every answer of a    *)
(* bounded space of answers.                                               *)
(***************************************************************************)
RECURSIVE SeqsUpTo(_, _)
SeqsUpTo(S, n) ==
    IF n = 0 THEN {<< >>}
    ELSE LET shorter == SeqsUpTo(S, n - 1)
         IN shorter \cup {Append(q, x) : q \in shorter, x \in S}

Entries == {Dict(Id("a")), DictNoId, Str(<<"b", "/">>), Str(<<"b", "/", "/">>), Str(<<"c">>), Num}

\* the elements of the bodies the bootstrap checks are answered with
BaseEntries == {Str(<<"query", "/">>), Str(<<"v1.2", "/">>), Str(<<"query">>), Dict(<<"query", "/">>)}

AllHeaders ==
    {Headers(names, <<>>) : names \in SUBSET {ACAO, ACAH}}
    \cup {Headers(names \cup {ACAM}, allow) :
              names \in SUBSET {ACAO, ACAH},
              allow \in {<<"GET">>, <<"GET", ",", "OPTIONS">>}}

AllBodies ==
    {NonJson} \cup {JsonObject(ok) : ok \in BOOLEAN}
    \cup {JsonList(items, ok) : items \in SeqsUpTo(Entries, MaxItems), ok \in BOOLEAN}

AllFailures ==
    {Raised("ConnectTimeout", "connect timed out"), Raised("ReadTimeout", "timed out"),
     Raised("TooManyRedirects", "exceeded 30 redirects"),
     Raised("ConnectionError", "connection refused"), Raised("InvalidURL", "invalid url")}

AllEvents ==
    {Returned(Response(code, h, b)) : code \in {200, 404}, h \in AllHeaders, b \in AllBodies}
    \cup AllFailures

\* the answers check_base_path is applied to
BaseBodies ==
    {NonJson, JsonObject(TRUE)}
    \cup {JsonList(items, TRUE) : items \in SeqsUpTo(BaseEntries, MaxItems)}

BaseEvents ==
    {Returned(Response(code, h, b)) : code \in {200, 404}, h \in AllHeaders, b \in BaseBodies}
    \cup AllFailures

\* the answers save_subresources is applied to
HarvestEvents ==
    {Returned(Response(code, h, b)) :
         code \in {200}, h \in {CorsOk, Headers({}, <<>>)}, b \in AllBodies}

\* the path save_subresources is called with, and the caches it is called on
HarvestPath == <<"/", "nodes">>
SomeCaches ==
    {<< >>, HarvestPath :> <<Id("x")>>, HarvestPath :> <<Id("a"), Id("x")>>,
     <<"/", "devices">> :> <<Id("x")>>}

Methods == {"GET", "HEAD", "OPTIONS"}

\* the templates of the list endpoints a harvest is keyed by, and the
\* parameterized endpoints of the catalog that are resolved after it
Templates ==
    {<<"/", "nodes">>, <<"/", "nodes", "/">>, <<"/", "nodes", "/", "/">>, <<"/">>,
     <<"/", "nodes", "/", "devices">>, <<"/", "nodes", "/", "{", "nodeId", "}">>}
Suffixes == {<<"/", "{", "p", "}">>, <<"{", "p", "}">>, <<"/", "/", "{", "p", "}">>}
Under(T, suffix) ==
    Resource(T \o suffix, "GET",
             (IF contains(T, <<"{">>) THEN <<"nodeId">> ELSE <<>>) \o <<"p">>, {200}, TRUE)
Parameterized ==
    {Under(T, suffix) : T \in Templates, suffix \in Suffixes} \cup {Node}

InitValidator ==
    /\ apis = Rerun.apis
    /\ omit_paths = Rerun.omit_paths
    /\ env = Rerun.env
    /\ methods = << >>
    /\ test_version = "v1.2"
    /\ result = << >>
    /\ results = << >>
    /\ checks = << >>
    /\ pc = At("idle", 0, 0)
    /\ inflight = NoRequest
    /\ last = NoEvent
    /\ nreq = 0
    /\ harvests = << >>
    /\ runs = 0
    /\ \/ /\ saved_entities = << >>
          /\ \E fn \in {"validate_CORS", "check_response", "check_api_resource"},
                method \in Methods, schema \in BOOLEAN, ev \in AllEvents :
                /\ fn \in {"validate_CORS", "check_response"} => ev.exc = "none" /\ schema
                /\ call = [NoCall EXCEPT !.fn = fn, !.method = method, !.schema = schema, !.ev = ev]
       \/ /\ saved_entities = << >>
          /\ \E phase \in {"base1", "base2"}, ev \in BaseEvents :
                call = [NoCall EXCEPT !.fn = "check_base_path", !.method = "GET",
                                      !.arg = phase, !.ev = ev]
       \/ /\ saved_entities \in SomeCaches
          /\ \E ev \in HarvestEvents :
                call = [NoCall EXCEPT !.fn = "save_subresources", !.ev = ev]
       \/ /\ saved_entities = << >>
          /\ \E T \in Templates, r \in Parameterized, ev \in {GoodAB, GoodBA, Garbage} :
                call = [NoCall EXCEPT !.fn = "resolve", !.method = "GET", !.schema = TRUE,
                                      !.path = T, !.res = r, !.ev = ev]

engine == <<apis, test_version, omit_paths, saved_entities, result, results, checks, pc,
            inflight, last, nreq, harvests, runs, env, methods>>

\* validate_CORS(method, response) is called
call_validate_CORS ==
    /\ call.fn = "validate_CORS" /\ ~call.done
    /\ call' = [call EXCEPT !.done = TRUE, !.valid = validate_CORS(call.method, call.ev.r)]
    /\ UNCHANGED engine

\* check_response(schema, method, response) is called
call_check_response ==
    /\ call.fn = "check_response" /\ ~call.done
    /\ LET v == check_response(call.schema, call.method, call.ev.r)
       IN call' = [call EXCEPT !.done = TRUE, !.valid = v[1], !.message = v[2]]
    /\ UNCHANGED engine

\* check_api_resource handles the answer to its request (lines 245-265)
call_check_api_resource ==
    /\ call.fn = "check_api_resource" /\ ~call.done
    /\ LET r == Resource(<<"/", "nodes">>, call.method, <<>>, {200}, call.schema)
           test == test_name(r, Rerun.apis[1], test_version, r.path)
       IN call' = [call EXCEPT !.done = TRUE, !.outcome = respond(r, 200, test, call.ev)]
    /\ UNCHANGED engine

\* check_base_path handles the answer to its request (lines 134-148)
call_check_base_path ==
    /\ call.fn = "check_base_path" /\ ~call.done
    /\ call' = [call EXCEPT !.done = TRUE,
                            !.outcome = check_base_path(base_path(apis[1], call.arg),
                                            base_expectation(apis[1], call.arg), call.ev)]
    /\ UNCHANGED engine

\* save_subresources(path, response) is called (lines 267-287)
call_save_subresources ==
    /\ call.fn = "save_subresources" /\ ~call.done
    /\ call' = [call EXCEPT !.done = TRUE]
    /\ saved_entities' = save_subresources(saved_entities, HarvestPath, call.ev.r)
    /\ UNCHANGED <<apis, test_version, omit_paths, result, results, checks, pc,
                   inflight, last, nreq, harvests, runs, env, methods>>

\* the check of a list endpoint harvests its answer under the endpoint's
\* template (line 253)
call_harvest ==
    /\ call.fn = "resolve" /\ ~call.done /\ call.arg = ""
    /\ call' = [call EXCEPT !.arg = "harvested"]
    /\ saved_entities' = save_subresources(saved_entities, call.path, call.ev.r)
    /\ UNCHANGED <<apis, test_version, omit_paths, result, results, checks, pc,
                   inflight, last, nreq, harvests, runs, env, methods>>

\* a later check of a parameterized endpoint builds its URL (lines 215-243)
call_resolve ==
    /\ call.fn = "resolve" /\ ~call.done /\ call.arg = "harvested"
    /\ LET res == resolve(call.res, apis[1], test_version, saved_entities)
       IN call' = [call EXCEPT !.done = TRUE, !.valid = (res.kind = "url"), !.url = res.url]
    /\ UNCHANGED engine

NextValidator ==
    \/ call_harvest
    \/ call_resolve
    \/ call_validate_CORS
    \/ call_check_response
    \/ call_check_api_resource
    \/ call_check_base_path
    \/ call_save_subresources

SpecValidator == InitValidator /\ [][NextValidator]_vars

(***************************************************************************)
(* Properties.                                                             *)
(***************************************************************************)
Last(q) == q[Len(q)]
RECURSIVE Concat(_)
\* the concatenation of a sequence of sequences
Concat(qs) == IF Len(qs) = 0 THEN << >> ELSE qs[1] \o Concat(Tail(qs))
RECURSIVE Select(_, _)
\* the calls of `harvests` made for path p, in call order
Select(hs, p) ==
    IF Len(hs) = 0 THEN << >>
    ELSE IF hs[1].path = p THEN <<hs[1]>> \o Select(Tail(hs), p) ELSE Select(Tail(hs), p)
\* the identifiers harvested for path p, in call order and encounter order
Harvested(p) == LET hs == Select(harvests, p) IN Concat([i \in 1..Len(hs) |-> hs[i].found])
\* for each of them, the API whose response it was extracted from
HarvestedFrom(p) ==
    LET hs == Select(harvests, p)
    IN Concat([i \in 1..Len(hs) |-> [k \in 1..Len(hs[i].found) |-> hs[i].api]])
\* a one-parameter endpoint's request is in flight
OneParamInFlight == at_resource /\ inflight # NoRequest /\ Len(resource.params) = 1

\* C1 (as stated): in the outcome list of a run no per-endpoint check of any API
\* instance comes before a bootstrap check of any API instance.
C1_AllBootstrapsFirst ==
    \A i, j \in 1..Len(checks) :
        i < j => ~(checks[i].kind = "endpoint" /\ checks[j].kind = "base")

\* C1 (amended): the API instances are processed one after the other in
\* API-instance order; within one instance its two bootstrap checks come
\* before its per-endpoint checks, and every outcome belongs to one check.
C1_BootstrapsFirstPerApi ==
    /\ Len(checks) = Len(results)
    /\ \A i, j \in 1..Len(checks) :
          i < j => /\ checks[i].api <= checks[j].api
                   /\ (checks[i].api = checks[j].api /\ checks[j].kind = "base"
                          => checks[i].kind = "base")
    /\ \A a \in 1..Len(apis) :
          (pc.phase = "reads" /\ pc.api = a) \/ (pc.phase \notin {"idle", "base1", "base2"} /\ pc.api > a)
          \/ pc.phase = "return"
             => Cardinality({i \in 1..Len(checks) : checks[i].api = a /\ checks[i].kind = "base"}) = 2

\* C1 witness: an endpoint check of the first API instance is followed by a
\* bootstrap check of the second one.
C1_Witness ==
    \E i, j \in 1..Len(checks) :
        /\ i < j
        /\ checks[i].kind = "endpoint" /\ checks[i].api = 1
        /\ checks[j].kind = "base" /\ checks[j].api = 2

\* C2: the identifier substituted into a one-parameter URL of an API instance
\* was harvested from a response of that same API instance.
C2_CacheNotShared ==
    OneParamInFlight /\ parent_path(resource) \in DOMAIN saved_entities
        => HarvestedFrom(parent_path(resource))[1] = apis[pc.api].name

\* C3: a one-parameter endpoint whose parent path is not cached gets exactly
\* one N/A outcome, no request is issued and the cache is left as it was.
C3_NoResourceIsNA ==
    [][(/\ at_resource /\ inflight = NoRequest /\ tested(resource)
        /\ Len(resource.params) = 1
        /\ rstrip(split_head(resource.path, "{"), "/") \notin DOMAIN saved_entities)
          => /\ Len(results') = Len(results) + 1
             /\ SubSeq(results', 1, Len(results)) = results
             /\ Last(results').state = "N/A"
             /\ Last(results').detail = Text("No resources found to perform this test")
             /\ nreq' = nreq
             /\ inflight' = NoRequest
             /\ saved_entities' = saved_entities
             /\ pc' = At("reads", pc.api, pc.res + 1)]_vars

\* C3 witness: an N/A outcome has just been appended while the cache is empty.
C3_Witness ==
    /\ pc.phase = "reads" /\ pc.res > 1 /\ inflight = NoRequest
    /\ Len(results) > 0 /\ Last(results).state = "N/A"
    /\ DOMAIN saved_entities = {}
    /\ Len(apis[pc.api].reads[pc.res - 1].params) = 1

\* C4: the URL requested for a one-parameter endpoint is the API's URL (its
\* trailing separators stripped) followed by the template with the first
\* cached identifier of the parent path substituted.
C4_FirstIdentifier ==
    OneParamInFlight
        => /\ parent_path(resource) \in DOMAIN saved_entities
           /\ inflight.url = rstrip(apis[pc.api].url, "/")
                 \o format(resource.path, resource.params[1],
                           saved_entities[parent_path(resource)][1])

\* C4 witness: such a request is in flight while the parent path holds several
\* identifiers and the first differs from the last.
C4_Witness ==
    /\ OneParamInFlight
    /\ parent_path(resource) \in DOMAIN saved_entities
    /\ LET ids == saved_entities[parent_path(resource)]
       IN Len(ids) >= 3 /\ ids[1] # Last(ids)

\* C5: every cache entry is the concatenation, in call order and encounter
\* order, of everything harvested for its path (no deduplication), a path
\* nothing was harvested for has no entry, and a step only ever extends entries.
C5_AppendOnly ==
    /\ [](/\ \A p \in DOMAIN saved_entities : saved_entities[p] = Harvested(p)
          /\ \A i \in 1..Len(harvests) :
                Len(harvests[i].found) > 0 => harvests[i].path \in DOMAIN saved_entities)
    /\ [][\A p \in DOMAIN saved_entities :
             p \in DOMAIN saved_entities' /\ IsPrefix(saved_entities[p], saved_entities'[p])]_vars

\* C5 witness: [a, b] then [b, a] were harvested for one path, which now holds
\* the four of them, duplicates included.
C5_Witness ==
    \E p \in DOMAIN saved_entities :
        saved_entities[p] = <<Id("a"), Id("b"), Id("b"), Id("a")>>

\* C6: whatever answers the request of a per-endpoint check, the check adds
\* exactly one outcome (a transport failure gives Fail with the transport's
\* description), basics moves on to the next endpoint of the catalog, and a
\* run that has started can always take its next step.
C6_FailureAbsorbed ==
    /\ [][at_resource /\ inflight # NoRequest
            => /\ Len(results') = Len(results) + 1
               /\ SubSeq(results', 1, Len(results)) = results
               /\ pc' = At("reads", pc.api, pc.res + 1)
               /\ last' \in env.events
               /\ last'.exc # "none"
                     => /\ Last(results').state = "Fail"
                        /\ Last(results').detail \in
                              {Text("Connection timeout"), Text("Too many redirects"),
                               Text(last'.text)}
                        /\ "Timeout" \in Bases(last'.exc)
                              => Last(results').detail = Text("Connection timeout")
                        /\ last'.exc = "ConnectionError"
                              => Last(results').detail = Text(last'.text)]_vars
    /\ [](pc.phase # "idle" => ENABLED Next)

\* C6 witness: a per-endpoint check failed on a connection error and a later
\* endpoint of the same run has been checked with a request of its own.
C6_Witness ==
    \E i, j \in 1..Len(results) :
        /\ i < j
        /\ checks[i].kind = "endpoint" /\ checks[j].kind = "endpoint"
        /\ results[i] = FAIL(results[i].name, Text("connection refused"))
        /\ results[j].state = "Pass"

\* the claims' reading of valid cross-origin headers, spelled out
PreflightHeaders(method, headers) ==
    /\ ACAH \in headers.names
    /\ ACAM \in headers.names
    /\ \E i \in 1..Len(headers.allowMethods) : headers.allowMethods[i] = method
CorsHeadersValid(method, headers) ==
    /\ ACAO \in headers.names
    /\ method = "OPTIONS" => PreflightHeaders(method, headers)

\* C7: a per-endpoint check passes only if the request succeeded with status
\* 200, a schema was located, the cross-origin headers are valid and the body
\* is JSON that conforms to the schema; a 200 response whose body does not
\* conform never passes, and fails with the schema-violation message when
\* nothing earlier in the order of checks is wrong with it.
C7_PassOnlyIfValid ==
    call.fn = "check_api_resource" /\ call.done
        => LET r == call.ev.r
               good == /\ call.ev.exc = "none"
                       /\ r.status_code = 200
                       /\ call.schema
                       /\ CorsHeadersValid(call.method, r.headers)
                       /\ r.body.json
           IN /\ call.outcome.state = "Pass" => good /\ r.body.conforms
              /\ call.ev.exc = "none" /\ r.status_code = 200 /\ ~r.body.conforms
                    => call.outcome.state # "Pass"
              /\ good /\ ~r.body.conforms
                    => /\ call.outcome.state = "Fail"
                       /\ call.outcome.detail = Text("Response schema validation error")

\* C7 witness: a 200 response with valid headers and a JSON body that violates
\* the schema has been handled.
C7_Witness ==
    /\ call.fn = "check_api_resource" /\ call.done /\ call.schema
    /\ call.ev.exc = "none" /\ call.ev.r.status_code = 200
    /\ call.method = "OPTIONS" /\ CorsHeadersValid("OPTIONS", call.ev.r.headers)
    /\ call.ev.r.body.json /\ ~call.ev.r.body.conforms
    /\ call.outcome.state = "Fail"

\* C8: a run starts from an empty cache and run_tests returns only the
\* outcomes of the run it started.
C8_NoStateAcrossRuns ==
    /\ pc.phase = "base1" /\ pc.api = 1 /\ inflight = NoRequest
          => DOMAIN saved_entities = {}
    /\ pc.phase = "idle" /\ runs > 0 => result = results

\* C9: check_response reports the first violated check in the order
\* cross-origin headers, JSON parse, schema conformance, and (True, "") when
\* none is violated.
C9_Precedence ==
    call.fn = "check_response" /\ call.done
        => LET r == call.ev.r
               cors == CorsHeadersValid(call.method, r.headers)
           IN /\ ~cors => ~call.valid /\ call.message.fmt = "Incorrect CORS headers: {}"
                          /\ call.message.hdrs = r.headers
              /\ cors /\ ~r.body.json
                    => ~call.valid /\ call.message = Text("Invalid JSON received")
              /\ cors /\ r.body.json /\ ~r.body.conforms
                    => ~call.valid /\ call.message = Text("Response schema validation error")
              /\ cors /\ r.body.json /\ r.body.conforms
                    => call.valid /\ call.message = Text("")

\* C9 witness: a response with invalid cross-origin headers and a body that is
\* not JSON has been validated.
C9_Witness ==
    /\ call.fn = "check_response" /\ call.done
    /\ ACAO \notin call.ev.r.headers.names
    /\ ~call.ev.r.body.json
    /\ ~call.valid

\* C10: validate_CORS accepts exactly the responses that carry
\* Access-Control-Allow-Origin and, for the OPTIONS method, also carry
\* Access-Control-Allow-Headers and an Access-Control-Allow-Methods that
\* contains the method; the status code and the body play no part.
C10_CorsRule ==
    call.fn = "validate_CORS" /\ call.done
        => LET h == call.ev.r.headers
           IN /\ ACAO \notin h.names => ~call.valid
              /\ call.valid <=>
                    /\ ACAO \in h.names
                    /\ call.method = "OPTIONS"
                          => /\ ACAH \in h.names
                             /\ ACAM \in h.names
                             /\ \E i \in 1..Len(h.allowMethods) : h.allowMethods[i] = "OPTIONS"

\* C10 witness: an OPTIONS response with all three headers whose allowed
\* methods do not name OPTIONS has been rejected.
C10_Witness ==
    /\ call.fn = "validate_CORS" /\ call.done /\ call.method = "OPTIONS"
    /\ call.ev.r.headers.names = {ACAO, ACAH, ACAM}
    /\ call.ev.r.headers.allowMethods = <<"GET">>
    /\ ~call.valid

\* the description do_request gives of a transport failure, spelled out
Description(ev) ==
    IF ev.exc \in {"ConnectTimeout", "ReadTimeout"} THEN "Connection timeout"
    ELSE IF ev.exc = "TooManyRedirects" THEN "Too many redirects"
    ELSE ev.text

\* C11: the outcome of a per-endpoint check whose URL was resolved is decided
\* in this order: a transport failure gives Fail with the transport's
\* description; otherwise a status other than the expected 200 gives Fail
\* reporting the actual status code; otherwise a missing schema gives Manual
\* "Test suite unable to locate schema"; otherwise the validator's verdict is
\* the outcome.  Manual is only emitted for a response whose status matched.
C11_OutcomeOrder ==
    call.fn = "check_api_resource" /\ call.done
        => LET ev == call.ev
               o == call.outcome
               v == check_response(TRUE, call.method, ev.r)
           IN /\ ev.exc # "none"
                    => o.state = "Fail" /\ o.detail = Text(Description(ev))
              /\ ev.exc = "none" /\ ev.r.status_code # 200
                    => /\ o.state = "Fail"
                       /\ o.detail.fmt = "Incorrect response code: {}"
                       /\ o.detail.code = ev.r.status_code
              /\ ev.exc = "none" /\ ev.r.status_code = 200 /\ ~call.schema
                    => /\ o.state = "Manual"
                       /\ o.detail = Text("Test suite unable to locate schema")
              /\ ev.exc = "none" /\ ev.r.status_code = 200 /\ call.schema
                    => /\ v[1] => o.state = "Pass"
                       /\ ~v[1] => o.state = "Fail" /\ o.detail = v[2]
              /\ o.state = "Manual" => ev.exc = "none" /\ ev.r.status_code = 200

\* C11 witness: a 404 answer to an endpoint that has no schema has been
\* handled and reported as a failure naming the status code 404.
C11_Witness ==
    /\ call.fn = "check_api_resource" /\ call.done /\ ~call.schema
    /\ call.ev.exc = "none" /\ call.ev.r.status_code = 404
    /\ call.outcome.state = "Fail" /\ call.outcome.detail.code = 404

\* a request of a check on an endpoint without path parameters is outstanding
ZeroParamInFlight ==
    at_resource /\ inflight # NoRequest /\ Len(resource.params) = 0

\* C12 as stated: for every endpoint with zero path parameters the requested
\* URL is the API's URL followed by the literal path template.
C12_UrlIsBasePlusTemplate ==
    ZeroParamInFlight => inflight.url = apis[pc.api].url \o resource.path

\* C12: for every endpoint with zero path parameters the requested URL is the
\* API's URL with its trailing "/" characters removed, followed by the literal
\* path template, whatever the cache holds.
C12_ZeroParamUrl ==
    ZeroParamInFlight
        => /\ inflight.url = rstrip(apis[pc.api].url, "/") \o resource.path
           /\ inflight.method = resource.method

\* C12 witness: the request of a parameterless endpoint is outstanding while
\* the cache holds identifiers under that endpoint's own template.
C12_Witness ==
    /\ ZeroParamInFlight
    /\ resource.path \in DOMAIN saved_entities
    /\ apis[pc.api].url # rstrip(apis[pc.api].url, "/")

\* C13: for an endpoint with two or more path parameters no outcome is
\* appended, no request is issued and the cache is unchanged: the step over it
\* changes nothing but the loop's position, so the endpoints after it are
\* checked from the state they would be checked from without it; no recorded
\* check belongs to such an endpoint.
C13_MultiParamNoOp ==
    /\ [][at_resource /\ inflight = NoRequest /\ tested(resource) /\ Len(resource.params) >= 2
            => /\ results' = results
               /\ checks' = checks
               /\ nreq' = nreq
               /\ inflight' = NoRequest
               /\ saved_entities' = saved_entities
               /\ harvests' = harvests
               /\ result' = result
               /\ pc' = At("reads", pc.api, pc.res + 1)]_vars
    /\ [](\A i \in 1..Len(checks) :
             checks[i].kind = "endpoint"
                 => Len(apis[checks[i].api].reads[checks[i].res].params) <= 1)

\* C13 witness: an endpoint that follows an endpoint with two path parameters
\* in the catalog has been checked with a request of its own.
C13_Witness ==
    \E i \in 1..Len(checks) :
        /\ checks[i].kind = "endpoint" /\ checks[i].req
        /\ results[i].state = "Manual"
        /\ \E k \in 1..(checks[i].res - 1) :
               LET r == apis[checks[i].api].reads[k]
               IN tested(r) /\ Len(r.params) >= 2

\* the claims' reading of an endpoint that is skipped, spelled out
Skipped(r) == 200 \notin r.responses \/ r.path \in omit_paths

\* how many endpoints of the API at index a the loop of this run has passed
Passed(a) ==
    IF pc.phase = "reads" /\ pc.api = a THEN pc.res - 1
    ELSE IF pc.phase \in {"base1", "base2", "reads"} /\ pc.api <= a THEN 0
    ELSE IF runs = 0 THEN 0
    ELSE Len(apis[a].reads)

\* C14: an endpoint whose expected statuses do not include 200, or whose path
\* template is in the omit list, is skipped with no request, no outcome and
\* no change of the cache; every other endpoint the loop has passed (with at
\* most one path parameter) has exactly one recorded check in this run, and
\* the checks of an API are recorded in catalog order.
C14_SkipOrCheckOnce ==
    /\ [][at_resource /\ inflight = NoRequest /\ Skipped(resource)
            => /\ results' = results
               /\ checks' = checks
               /\ nreq' = nreq
               /\ inflight' = NoRequest
               /\ saved_entities' = saved_entities
               /\ harvests' = harvests
               /\ pc' = At("reads", pc.api, pc.res + 1)]_vars
    /\ [](\A a \in 1..Len(apis) :
             LET E == {i \in 1..Len(checks) : checks[i].kind = "endpoint" /\ checks[i].api = a}
             IN /\ \A i, j \in E : i < j => checks[i].res < checks[j].res
                /\ {checks[i].res : i \in E}
                      = {k \in 1..Passed(a) :
                            ~Skipped(apis[a].reads[k]) /\ Len(apis[a].reads[k].params) <= 1})

\* C14 witness: the run is over, an omitted endpoint and an endpoint without a
\* 200 response lie in the catalog, and endpoints before and after them were
\* checked.
C14_Witness ==
    /\ pc.phase = "return"
    /\ \E a \in 1..Len(apis) :
          \E k1, k2 \in 1..Len(apis[a].reads) :
              /\ apis[a].reads[k1].path \in omit_paths
              /\ 200 \notin apis[a].reads[k2].responses
              /\ \E i, j \in 1..Len(checks) :
                    /\ checks[i].api = a /\ checks[j].api = a
                    /\ checks[i].kind = "endpoint" /\ checks[j].kind = "endpoint"
                    /\ checks[i].res < k1 /\ checks[j].res > k2

\* the check of a one-parameter endpoint is about to resolve its URL
OneParamAtResolve ==
    at_resource /\ inflight = NoRequest /\ tested(resource) /\ Len(resource.params) = 1

\* an earlier check of this run, on an endpoint with template p, got a 200
\* response from which at least one identifier was extracted
HarvestedThisRun(p) ==
    \E i \in 1..Len(harvests) :
        harvests[i].run = runs /\ harvests[i].path = p /\ Len(harvests[i].found) > 0

\* C15: a one-parameter endpoint with template P/{x} is resolved (not N/A)
\* exactly when an earlier check in the same run, on the endpoint whose
\* template is P, received a 200 list response from which at least one
\* identifier was extracted.
C15_ReadAfterWrite ==
    OneParamAtResolve
        => (resolve(resource, apis[pc.api], test_version, saved_entities).kind = "url"
               <=> HarvestedThisRun(parent_path(resource)))

\* the run is inside basics(): at a bootstrap or per-endpoint check, or about
\* to return from it
InBasics == pc.phase \in {"base1", "base2", "reads", "return"}

\* C16: exactly one transport attempt is made per check and nothing is
\* retried: a step issues at most one request, and only for a check that has
\* none outstanding; the answer to the outstanding request, success or
\* failure, ends the check with one outcome and no further request (a
\* failure becomes Fail with the description do_request returns for its
\* class); up to the end of basics() in a first run the requests issued are
\* one per bootstrap or per-endpoint check that made a request, plus the
\* outstanding one.
C16_OneAttempt ==
    /\ [][/\ nreq' \in {nreq, nreq + 1}
          /\ nreq' = nreq + 1
                => /\ inflight = NoRequest /\ inflight' # NoRequest
                   /\ results' = results /\ pc' = pc
          /\ inflight # NoRequest /\ InBasics
                => /\ nreq' = nreq
                   /\ inflight' = NoRequest
                   /\ Len(results') = Len(results) + 1
                   /\ pc' # pc
                   /\ last'.exc # "none"
                         => /\ Last(results').state = "Fail"
                            /\ IF pc.phase = "reads"
                               THEN Last(results').detail = Text(Description(last'))
                               ELSE /\ Last(results').detail.fmt = "Unable to connect to API: {}"
                                    /\ Last(results').detail.text = Description(last')]_vars
    /\ [](runs = 1 /\ InBasics
            => nreq = Cardinality({i \in 1..Len(checks) : checks[i].req})
                      + (IF inflight # NoRequest THEN 1 ELSE 0))

\* C16 witness: a per-endpoint request failed on too many redirects, its check
\* ended as a failure, and a later check has made its own request.
C16_Witness ==
    \E i, j \in 1..Len(results) :
        /\ i < j
        /\ checks[i].kind = "endpoint" /\ checks[i].req
        /\ results[i].state = "Fail" /\ results[i].detail = Text("Too many redirects")
        /\ checks[j].req

\* the five failure messages of a bootstrap check, in the order of the
\* conditions they report
BaseMessages ==
    <<"Unable to connect to API: {}", "Incorrect response code: {}",
      "Incorrect CORS headers: {}", "Non-JSON response returned",
      "Response is not an array containing '{}'">>

\* the first condition of that order an answer violates for the expected
\* string exp (0 if none)
BaseFailure(ev, exp) ==
    IF ev.exc # "none" THEN 1
    ELSE IF ev.r.status_code # 200 THEN 2
    ELSE IF ACAO \notin ev.r.headers.names THEN 3
    ELSE IF ~ev.r.body.json THEN 4
    ELSE IF ~ev.r.body.list \/ Str(exp) \notin {ev.r.body.items[i] : i \in 1..Len(ev.r.body.items)}
         THEN 5
    ELSE 0

\* C17: a bootstrap check (GET /x-nmos expecting "<api>/", GET /x-nmos/<api>
\* expecting "<version>/") passes exactly when the request succeeds, the
\* status is 200, Access-Control-Allow-Origin is present and the body is a
\* JSON list containing the expected string; otherwise it fails with the
\* message of the first violated condition, and the five messages are
\* pairwise distinct.
C17_BootstrapVerdict ==
    call.fn = "check_base_path" /\ call.done
        => LET exp == IF call.arg = "base1" THEN <<"query", "/">> ELSE <<"v1.2", "/">>
               k == BaseFailure(call.ev, exp)
               o == call.outcome
           IN /\ o.name = (IF call.arg = "base1" THEN <<"GET", " ", "/", "x-nmos">>
                           ELSE <<"GET", " ", "/", "x-nmos", "/", "query">>)
              /\ o.state = "Pass" <=> k = 0
              /\ k # 0 => /\ o.state = "Fail"
                          /\ o.detail.fmt = BaseMessages[k]
                          /\ \A j \in 1..5 : j # k => o.detail.fmt # BaseMessages[j]
              /\ k = 1 => o.detail.text = Description(call.ev)
              /\ k = 2 => o.detail.code = call.ev.r.status_code
              /\ k = 3 => o.detail.hdrs = call.ev.r.headers

\* C17 witness: a 200 answer with the cross-origin header and a JSON list that
\* lacks the expected string has been reported with the fifth message.
C17_Witness ==
    /\ call.fn = "check_base_path" /\ call.done /\ call.arg = "base2"
    /\ call.ev.exc = "none" /\ call.ev.r.status_code = 200
    /\ ACAO \in call.ev.r.headers.names
    /\ call.ev.r.body.list /\ Len(call.ev.r.body.items) = 2
    /\ call.outcome.state = "Fail"
    /\ call.outcome.detail.fmt = "Response is not an array containing '{}'"

\* the probes of the bootstrap and per-endpoint checks of a first run that
\* were issued and whose check has not recorded its outcome yet
Outstanding == nreq - Cardinality({i \in 1..Len(checks) : checks[i].req})

\* C18: probes are strictly sequential: at most one probe is outstanding at
\* any time, and a check issues its request only when no probe is
\* outstanding, every earlier check has its outcome recorded and the cache
\* holds every identifier harvested so far.
C18_Sequential ==
    /\ [](runs = 1 /\ InBasics => /\ Outstanding \in {0, 1}
                                   /\ Outstanding = 1 <=> inflight # NoRequest)
    /\ [][nreq' # nreq
            => /\ nreq' = nreq + 1
               /\ inflight = NoRequest /\ inflight' # NoRequest
               /\ Len(results) = Len(checks)
               /\ runs = 1 /\ InBasics => Outstanding = 0
               /\ \A i \in 1..Len(harvests) :
                     Len(harvests[i].found) > 0
                         => /\ harvests[i].path \in DOMAIN saved_entities
                            /\ saved_entities[harvests[i].path] = Harvested(harvests[i].path)]_vars

\* C18 witness: the request of a check is outstanding after an earlier check
\* of the run recorded its outcome and harvested identifiers.
C18_Witness ==
    /\ at_resource /\ inflight # NoRequest /\ runs = 1
    /\ \E i \in 1..Len(checks) : checks[i].kind = "endpoint" /\ checks[i].req
    /\ \E i \in 1..Len(harvests) : Len(harvests[i].found) > 0

\* the claims' reading of what one element of a list body contributes,
\* spelled out: the "id" of a dict that has one, a string that ends in "/"
\* without its trailing "/" characters, nothing otherwise
Contribution(entry) ==
    IF entry.t = "dict" /\ entry.hasId THEN <<entry.v>>
    ELSE IF entry.t = "str" /\ Len(entry.v) > 0 /\ entry.v[Len(entry.v)] = "/"
         THEN LET n == CHOOSE k \in 0..Len(entry.v) :
                           /\ k > 0 => entry.v[k] # "/"
                           /\ \A m \in (k + 1)..Len(entry.v) : entry.v[m] = "/"
              IN <<SubSeq(entry.v, 1, n)>>
    ELSE <<>>

\* the identifiers a body yields by that reading
Contributions(body) ==
    IF body.json /\ body.list
    THEN Concat([i \in 1..Len(body.items) |-> Contribution(body.items[i])])
    ELSE <<>>

\* C19: save_subresources extracts nothing from a body that is not JSON or
\* not a list; from a list, in order, a dict with key "id" contributes its id,
\* a string ending in "/" contributes the string without its trailing
\* separator, any other element contributes nothing; the identifiers are
\* appended to the cache entry keyed by the path passed in, and no other
\* entry changes.
C19_ExtractionRule ==
    [][call.fn = "save_subresources" /\ ~call.done
          => LET found == Contributions(call.ev.r.body)
                 old == IF HarvestPath \in DOMAIN saved_entities
                        THEN saved_entities[HarvestPath] ELSE <<>>
             IN /\ Len(found) = 0 => saved_entities' = saved_entities
                /\ Len(found) > 0
                      => /\ DOMAIN saved_entities' = DOMAIN saved_entities \cup {HarvestPath}
                         /\ saved_entities'[HarvestPath] = old \o found
                         /\ \A p \in DOMAIN saved_entities :
                               p # HarvestPath => saved_entities'[p] = saved_entities[p]]_vars

\* C19 witness: a list of a string ending in "/" and a dict with "id" has been
\* harvested into an entry that already held an identifier.
C19_Witness ==
    /\ call.fn = "save_subresources" /\ call.done
    /\ call.ev.r.body.items = <<Str(<<"b", "/">>), Dict(Id("a"))>>
    /\ saved_entities = (HarvestPath :> <<Id("x"), Id("b"), Id("a")>>)

\* C20: check_api_resource harvests, under the endpoint's own path template,
\* exactly when the request succeeded and the status matched, whatever the
\* outcome of the check then is (Manual, or Fail on headers, JSON or schema);
\* nothing is cached on a transport failure or a status mismatch.
C20_HarvestBeforeValidation ==
    [][at_resource /\ inflight # NoRequest
          => LET ok == last'.exc = "none" /\ last'.r.status_code = 200
                 found == Contributions(last'.r.body)
                 old == IF resource.path \in DOMAIN saved_entities
                        THEN saved_entities[resource.path] ELSE <<>>
             IN /\ ~ok => saved_entities' = saved_entities /\ harvests' = harvests
                /\ ok => /\ Len(harvests') = Len(harvests) + 1
                         /\ Last(harvests').path = resource.path
                         /\ Last(harvests').found = found
                /\ ok /\ Len(found) > 0
                      => /\ resource.path \in DOMAIN saved_entities'
                         /\ saved_entities'[resource.path] = old \o found
                         /\ \A p \in DOMAIN saved_entities' \ {resource.path} :
                               p \in DOMAIN saved_entities /\ saved_entities'[p] = saved_entities[p]
                /\ ok /\ Len(found) = 0 => saved_entities' = saved_entities]_vars

\* C20 witness: a check without a schema ended as Manual and the identifiers
\* of its answer are cached under its own parameterized template, while a
\* check that failed on its headers left its identifier under its template.
C20_Witness ==
    /\ Len(results) > 0 /\ Last(results).state = "Manual"
    /\ NodeNoSchema.path \in DOMAIN saved_entities
    /\ \E i \in 1..Len(results) :
          /\ results[i].state = "Fail"
          /\ results[i].detail.fmt = "Incorrect CORS headers: {}"
          /\ checks[i].kind = "endpoint"
          /\ Id("c") \in {saved_entities[Nodes.path][k] : k \in 1..Len(saved_entities[Nodes.path])}

\* run_tests is about to return, and the list it returns
AboutToReturn ==
    \/ pc.phase = "return" /\ Len(methods) = 0
    \/ pc.phase = "tests" /\ pc.res > Len(methods)
ReturnedList == IF Len(methods) = 0 THEN result \o results ELSE result

\* C21: the list run_tests returns holds the bootstrap and per-endpoint
\* outcomes of the run first, in execution order, followed by exactly one
\* outcome per named test_ check in ascending method-name order, and nothing
\* else.
C21_ReturnedOrder ==
    AboutToReturn
        => /\ Len(ReturnedList) = Len(results) + Len(methods)
           /\ SubSeq(ReturnedList, 1, Len(results)) = results
           /\ \A k \in 1..Len(methods) :
                 ReturnedList[Len(results) + k].name = Title(methods[k])

\* C22: a failed or malformed response inside a named check becomes an
\* outcome of that check and never aborts the run: no exception leaves a
\* named check, and when the loop is at the k-th test_ method the list ends
\* with one outcome for each of the k-1 methods before it.
C22_NamedFailureAbsorbed ==
    /\ pc.phase # "raising"
    /\ pc.phase = "tests"
          => /\ Len(result) >= pc.res - 1
             /\ \A k \in 1..(pc.res - 1) :
                   result[Len(result) - (pc.res - 1) + k].name = Title(methods[k])

\* C23: every entry of the cache is a non-empty list in every reachable
\* state: a path is a key of the cache exactly when at least one identifier
\* was harvested for it, so the element 0 a one-parameter check selects
\* exists whenever the membership test succeeds.
C23_EntriesNonEmpty ==
    /\ \A p \in DOMAIN saved_entities : Len(saved_entities[p]) > 0
    /\ \A i \in 1..Len(harvests) :
          harvests[i].path \in DOMAIN saved_entities <=> Len(Harvested(harvests[i].path)) > 0
    /\ OneParamAtResolve /\ parent_path(resource) \in DOMAIN saved_entities
          => pick_entity(saved_entities[parent_path(resource)])
                = Harvested(parent_path(resource))[1]

\* C23 witness: a 200 answer from which nothing could be extracted was
\* harvested and its path has no entry, while another path has one.
C23_Witness ==
    /\ \E i \in 1..Len(harvests) :
          Len(harvests[i].found) = 0 /\ harvests[i].path \notin DOMAIN saved_entities
    /\ DOMAIN saved_entities # {}

\* C24: the cache changes only in the step in which a per-endpoint check
\* of an endpoint with at most one parameter receives a status-matched
\* answer: bootstrap checks, N/A outcomes, skipped, omitted and
\* multi-parameter endpoints, transport failures, status mismatches and the
\* named checks leave the cache as it was.
C24_OnlyEndpointChecksWrite ==
    [][saved_entities' # saved_entities
          => /\ at_resource /\ inflight # NoRequest
             /\ tested(resource) /\ Len(resource.params) <= 1
             /\ Len(results') = Len(results) + 1
             /\ Last(results').state # "N/A"
             /\ last'.exc = "none" /\ last'.r.status_code = 200]_vars

\* C24 witness: the bootstrap checks passed on lists of strings ending in
\* "/", the only endpoint check harvested once, and a named check has just
\* been answered with a list of identifiers: the cache holds the one harvest.
C24_Witness ==
    /\ pc.phase = "tests" /\ last = GoodAB
    /\ \E i \in 1..Len(checks) : checks[i].kind = "base" /\ results[i].state = "Pass"
    /\ Len(harvests) = 1
    /\ saved_entities = (Nodes.path :> extracted(GoodAB.r))

\* C25: the identifier chosen for a parent path is stable: once the path has
\* an entry, no step changes the identifier that would be selected from it,
\* and every request of a one-parameter check under it carries the first
\* identifier ever harvested for the path, whatever was harvested since.
C25_StableIdentifier ==
    /\ [][\A p \in DOMAIN saved_entities :
              /\ p \in DOMAIN saved_entities'
              /\ pick_entity(saved_entities'[p]) = pick_entity(saved_entities[p])]_vars
    /\ [](OneParamInFlight
            => inflight.url = rstrip(apis[pc.api].url, "/")
                  \o format(resource.path, resource.params[1],
                            Harvested(parent_path(resource))[1]))

\* C25 witness: the second one-parameter check under /nodes has its request
\* in flight, the first one was sent too, and between them the entry of
\* /nodes was extended by identifiers in another order.
C25_Witness ==
    /\ OneParamInFlight /\ pc.res = 4
    /\ \E i \in 1..Len(checks) :
          checks[i].kind = "endpoint" /\ checks[i].res = 2 /\ checks[i].req
    /\ LET ids == saved_entities[parent_path(resource)]
       IN Len(ids) = 4 /\ ids[3] # ids[1]

\* the text of a template before its first "{", without trailing "/"
LookupKey(template) ==
    LET i == CHOOSE i \in 1..Len(template) :
                 template[i] = "{" /\ \A j \in 1..(i - 1) : template[j] # "{"
        n == CHOOSE n \in 0..(i - 1) :
                 /\ n = 0 \/ template[n] # "/"
                 /\ \A j \in (n + 1)..(i - 1) : template[j] = "/"
    IN SubSeq(template, 1, n)

\* C26: a harvest is keyed by the unmodified template T of its endpoint,
\* while a one-parameter endpoint looks up its template before the first "{"
\* without trailing "/": identifiers harvested under T resolve T/{p} exactly
\* when T has no trailing "/" and no placeholder, and identifiers harvested
\* under a template ending in "/", under "/" or under a parameterized
\* template are read by no check.
C26_LookupKey ==
    call.fn = "resolve" /\ call.arg = "harvested"
        => LET T == call.path
               R == call.res
               ids == Contributions(call.ev.r.body)
           IN /\ saved_entities = (IF Len(ids) > 0 THEN T :> ids ELSE << >>)
              /\ call.done
                    => /\ Len(R.params) = 1
                             => /\ call.valid <=> Len(ids) > 0 /\ LookupKey(R.path) = T
                                /\ call.valid
                                      => call.url = rstrip(apis[1].url, "/")
                                            \o format(R.path, R.params[1], ids[1])
                       /\ R.path = T \o <<"/", "{", "p", "}">> /\ Len(ids) > 0
                             => (call.valid <=> ~endswith(T, "/") /\ ~contains(T, <<"{">>))
                       /\ endswith(T, "/") \/ contains(T, <<"{">>) => ~call.valid

\* C26 witness: identifiers were harvested under the template /nodes/ and
\* the endpoint /nodes/{p} was then not resolved.
C26_Witness ==
    /\ call.fn = "resolve" /\ call.done /\ ~call.valid
    /\ call.path = <<"/", "nodes", "/">>
    /\ call.res.path = <<"/", "nodes", "/", "{", "p", "}">>
    /\ call.path \in DOMAIN saved_entities

\* C27: do_400_check passes exactly when the POST succeeded, the status is
\* 400 and the response has valid CORS headers and a JSON body conforming to
\* the 400 schema; a transport failure gives Fail with the transport's
\* description, another status gives Fail naming that status whatever the
\* headers and body are, and a rejected 400 response gives Fail with the
\* validator's message.  The accept-and-store checks send nothing and return
\* Manual when the version under test is not v1.2.
C27_RejectAndGate ==
    /\ [][at_test /\ method_name \in RejectTests /\ inflight # NoRequest
            => LET ev == last'
                   o == Last(result')
                   cors == CorsHeadersValid("POST", ev.r.headers)
               IN /\ Len(result') = Len(result) + 1
                  /\ o.name = Title(method_name)
                  /\ o.state \in {"Pass", "Fail"}
                  /\ o.state = "Pass"
                        <=> /\ ev.exc = "none" /\ ev.r.status_code = 400
                            /\ cors /\ ev.r.body.json /\ ev.r.body.conforms
                  /\ ev.exc # "none" => o.detail = Text(Description(ev))
                  /\ ev.exc = "none" /\ ev.r.status_code # 400
                        => /\ o.detail.fmt
                                = "Registration API returned a {} code for an invalid registration"
                           /\ o.detail.code = ev.r.status_code
                  /\ ev.exc = "none" /\ ev.r.status_code = 400 /\ o.state = "Fail"
                        => IF ~cors
                           THEN /\ o.detail.fmt = "Incorrect CORS headers: {}"
                                /\ o.detail.hdrs = ev.r.headers
                           ELSE IF ~ev.r.body.json
                                THEN o.detail = Text("Invalid JSON received")
                           ELSE o.detail = Text("Response schema validation error")]_vars
    /\ [][at_test /\ method_name \in AcceptTests /\ test_version # "v1.2"
            => /\ nreq' = nreq /\ inflight' = NoRequest /\ inflight = NoRequest
               /\ result' = Append(result, MANUAL(Title(method_name),
                      Text("This test cannot currently be performed for API versions other than v1.2")))]_vars

\* C27 witness: under v1.0 test_03 returned Manual without a request and
\* test_04 has just passed on a 400 answer.
C27_Witness ==
    /\ test_version = "v1.0" /\ pc.phase = "tests" /\ pc.res = 5
    /\ last = Rejected /\ Last(result).state = "Pass"
    /\ result[Len(result) - 1].state = "Manual"
    /\ nreq = Len(checks) + 1

====
